---- MODULE Spec2Model ----
(***************************************************************************)
(* Model of the video-ingestion pipeline (handlerUploadVideo and its       *)
(* helpers getVideoAspectRatio, processVideoForFastStart,                  *)
(* dbVideoToSignedVideo).  Every request runs in a handler slot; a slot    *)
(* advances from one await of the handler to the next in one atomic        *)
(* action, so requests of different slots interleave exactly at the        *)
(* awaits of the code.                                                     *)
(***************************************************************************)
EXTENDS Integers, Sequences, FiniteSets, TLC

\* ---------------------------------------------------------------- bounds
NumSlots == 2
MaxRequests == 2

MaxNames == 3
MaxSignCalls == 3
MaxDim == 32

Slots == 1..NumSlots

\* ------------------------------------------------------ program constants
MAX_UPLOAD_SIZE == 1073741824
ExpireTime == 3600

\* ---------------------------------------------------------------- inputs
Users == {"u1", "u2"}
InvalidToken == "invalid"
Tokens == Users \cup {InvalidToken}
MissingId == ""
PathIds == {MissingId, "v1", "v404"}
Mimes == {"video/mp4", "video/avi"}
Sizes == {MAX_UPLOAD_SIZE, MAX_UPLOAD_SIZE + 1}
Contents == {"A"}
Dims == {<<16, 9>>, <<9, 16>>, <<4, 3>>}

OrigBytes(c) == [data |-> c, layout |-> "orig"]
NoBytes == [data |-> "", layout |-> "none"]
NotAFile == [isFile |-> FALSE, size |-> 0, type |-> "", bytes |-> NoBytes]
FilePayloads ==
  { [isFile |-> TRUE, size |-> s, type |-> t, bytes |-> OrigBytes(c)] :
      s \in Sizes, t \in Mimes, c \in Contents }
Payloads == {NotAFile} \cup FilePayloads
Requests == [videoId : PathIds, token : Tokens, payload : Payloads]
NoRequest == [videoId |-> MissingId, token |-> InvalidToken, payload |-> NotAFile]

\* Inputs of a thumbnail upload; the handler exists in two versions.
MAX_THUMB_SIZE == 10485760
ThumbMimes == {"image/png", "image/gif"}
ThumbSizes == {MAX_THUMB_SIZE, MAX_THUMB_SIZE + 1}
ThumbPayloads ==
  {NotAFile} \cup
  { [isFile |-> TRUE, size |-> s, type |-> t, bytes |-> OrigBytes("T")] :
      s \in ThumbSizes, t \in ThumbMimes }
Versions == {"dataURL", "assetFile"}
ThumbRequests == [version : Versions, videoId : PathIds, token : Tokens, payload : ThumbPayloads]
NoThumbRequest == [version |-> "dataURL", videoId |-> MissingId, token |-> InvalidToken, payload |-> NotAFile]

\* ------------------------------------------------- values held by a record
NoURL == [kind |-> "none"]
KeyURL(prefix, fileName) == [kind |-> "key", prefix |-> prefix, name |-> fileName]
NoVideo == [id |-> MissingId, userID |-> "", videoURL |-> NoURL, thumbnailURL |-> NoURL]
NoFileName == [rand |-> 0, ext |-> ""]

\* ------------------------------------------------- outcomes of the handler
NoError == [status |-> 0, error |-> "", msg |-> "", body |-> NoVideo]
Throw(cls, msg) == [status |-> 0, error |-> cls, msg |-> msg, body |-> NoVideo]
respondWithJSON(status, body) == [status |-> status, error |-> "", msg |-> "", body |-> body]

\* ------------------------------------------------------------ collaborators
validateJWT(token) == IF token \in Users THEN token ELSE ""

getVideo(store, videoId) == IF videoId \in DOMAIN store THEN store[videoId] ELSE NoVideo

updateVideo(store, video) == [store EXCEPT ![video.id] = video]

presign(key, expiresIn) == [kind |-> "signed", key |-> key, expiresIn |-> expiresIn]

generatePresignedURL(key) == presign(key, ExpireTime)

\* Mutant: the view keeps the raw key.
MutDbVideoToSignedVideoRaw(video) == video

dbVideoToSignedVideo(video) ==
  IF video.videoURL = NoURL
    THEN video
    ELSE [video EXCEPT !.videoURL = generatePresignedURL(video.videoURL)]

\* ------------------------------------------------------- local file system
TargetPath(fileName) == [name |-> fileName, suffix |-> ""]
OutputFilePath(filePath) == [filePath EXCEPT !.suffix = ".processed"]
FileAt(files, p) == {f \in files : f.path = p}
WriteFile(files, p, bytes) == (files \ FileAt(files, p)) \cup {[path |-> p, bytes |-> bytes]}
DeleteFile(files, p) == files \ FileAt(files, p)
ReadFile(files, p) == IF FileAt(files, p) = {} THEN NoBytes ELSE (CHOOSE f \in FileAt(files, p) : TRUE).bytes

\* --------------------------------------------------------- pure helpers
Extension(type) ==
  IF type = "video/mp4" THEN "mp4" ELSE IF type = "video/avi" THEN "avi" ELSE ""

Abs(x) == IF x < 0 THEN -x ELSE x

\* Mutant: the tolerance is inclusive.
MutAspectClassInclusive(width, height) ==
  IF height > 0 /\ 100 * Abs(9 * width - 16 * height) <= 9 * height THEN "landscape"
  ELSE IF height > 0 /\ 100 * Abs(16 * width - 9 * height) <= 16 * height THEN "portrait"
  ELSE "other"

\* width / height against 16 / 9 and 9 / 16 with tolerance 0.01, without the
\* division: for the dimensions of AspectInputs the doubles of the code order
\* the same way as the exact quotients.
AspectClass(width, height) ==
  IF height > 0 /\ 100 * Abs(9 * width - 16 * height) < 9 * height THEN "landscape"
  ELSE IF height > 0 /\ 100 * Abs(16 * width - 9 * height) < 16 * height THEN "portrait"
  ELSE "other"

FastStart(bytes) == [bytes EXCEPT !.layout = "faststart"]
Partial(bytes) == [bytes EXCEPT !.layout = "partial"]

IdError(rq) ==
  IF rq.videoId = MissingId THEN Throw("BadRequestError", "Invalid video ID") ELSE NoError

AuthError(rq) ==
  IF validateJWT(rq.token) = "" THEN Throw("UserNotAuthenticatedError", "Invalid token") ELSE NoError

\* Mutant: the size of the payload is not checked.
MutFormErrorNoSize(rq) ==
  IF ~rq.payload.isFile THEN Throw("BadRequestError", "Video is not a file") ELSE NoError

FormError(rq) ==
  IF ~rq.payload.isFile THEN Throw("BadRequestError", "Video is not a file")
  ELSE IF rq.payload.size > MAX_UPLOAD_SIZE THEN Throw("BadRequestError", "Video is larger than 1GB")
  ELSE NoError

\* Mutant: the type is checked after the lookup but before the owner.
MutRecordErrorTypeBeforeOwner(rq, video) ==
  IF video = NoVideo THEN Throw("NotFoundError", "Video not found")
  ELSE IF rq.payload.type # "video/mp4" THEN Throw("BadRequestError", "Unsupported video format")
  ELSE IF video.userID # validateJWT(rq.token) THEN Throw("UserForbiddenError", "Wrong user")
  ELSE NoError

\* Mutant: the type is checked before the record is looked up.
MutRecordErrorTypeBeforeLookup(rq, video) ==
  IF rq.payload.type # "video/mp4" THEN Throw("BadRequestError", "Unsupported video format")
  ELSE IF video = NoVideo THEN Throw("NotFoundError", "Video not found")
  ELSE IF video.userID # validateJWT(rq.token) THEN Throw("UserForbiddenError", "Wrong user")
  ELSE NoError

\* Mutant: the type is not checked.
MutRecordErrorNoType(rq, video) ==
  IF video = NoVideo THEN Throw("NotFoundError", "Video not found")
  ELSE IF video.userID # validateJWT(rq.token) THEN Throw("UserForbiddenError", "Wrong user")
  ELSE NoError

RecordError(rq, video) ==
  IF video = NoVideo THEN Throw("NotFoundError", "Video not found")
  ELSE IF video.userID # validateJWT(rq.token) THEN Throw("UserForbiddenError", "Wrong user")
  ELSE IF rq.payload.type # "video/mp4" THEN Throw("BadRequestError", "Unsupported video format")
  ELSE NoError

\* Mutant: the key ignores the geometry class.
MutStorageKeyNoClass(prefix, fileName) == KeyURL("other", fileName)

StorageKey(prefix, fileName) == KeyURL(prefix, fileName)

\* Mutant: the staged file is uploaded, not its processed file.
MutUploadSourceStaged(targetPath) == targetPath

UploadSource(targetPath) == OutputFilePath(targetPath)

\* Mutant: the record is signed before it is persisted.
MutVideoAtUpdateSigned(keyed) == dbVideoToSignedVideo(keyed)

VideoAtUpdate(keyed) == keyed

\* ------------------------------------------------------------------ state
\* db, s3, fs: the metadata store, object storage, the assets directory.
\* pc .. log: the locals of the video upload running in each slot.
\* tpc .. tlog: the locals of the one thumbnail upload in flight.
\* arg, out: the argument and the results of a helper applied on its own.
VARIABLES db, s3, fs, nameCtr, started, pc, req, resp, video, fileName, prefix, log,
          tpc, treq, tresp, tvideo, tfile, tlog, arg, out

shared == <<db, s3, fs, nameCtr, started>>
uploads == <<pc, req, resp, video, fileName, prefix, log>>
thumbs == <<tpc, treq, tresp, tvideo, tfile, tlog>>
pure == <<arg, out>>
vars == <<db, s3, fs, nameCtr, started, pc, req, resp, video, fileName, prefix, log,
          tpc, treq, tresp, tvideo, tfile, tlog, arg, out>>

Init ==
  /\ db = [v \in {"v1"} |-> [id |-> "v1", userID |-> "u1", videoURL |-> NoURL, thumbnailURL |-> NoURL]]
  /\ s3 = {}
  /\ fs = {}
  /\ nameCtr = 0
  /\ started = 0
  /\ pc = [r \in Slots |-> "idle"]
  /\ req = [r \in Slots |-> NoRequest]
  /\ resp = [r \in Slots |-> NoError]
  /\ video = [r \in Slots |-> NoVideo]
  /\ fileName = [r \in Slots |-> NoFileName]
  /\ prefix = [r \in Slots |-> ""]
  /\ log = [r \in Slots |-> <<>>]
  /\ tpc = "idle"
  /\ treq = NoThumbRequest
  /\ tresp = NoError
  /\ tvideo = NoVideo
  /\ tfile = NoFileName
  /\ tlog = <<>>
  /\ arg = NoVideo
  /\ out = <<>>

\* The handler of slot r ends: by a response or by a thrown error.
End(r, outcome) ==
  /\ pc' = [pc EXCEPT ![r] = "done"]
  /\ resp' = [resp EXCEPT ![r] = outcome]

Step(r, next, what) ==
  /\ pc' = [pc EXCEPT ![r] = next]
  /\ log' = [log EXCEPT ![r] = Append(@, what)]

\* A request out of the set given arrives and is served by the first free
\* slot; lines 12-22: the path parameter, the token, the form.
ReceiveFrom(r, requests) ==
  /\ pc[r] = "idle"
  /\ \A q \in 1..(r - 1) : pc[q] # "idle"
  /\ started < MaxRequests
  /\ \E rq \in requests :
       /\ req' = [req EXCEPT ![r] = rq]
       /\ IF IdError(rq) # NoError THEN End(r, IdError(rq))
          ELSE IF AuthError(rq) # NoError THEN End(r, AuthError(rq))
          ELSE pc' = [pc EXCEPT ![r] = "form"] /\ UNCHANGED resp
  /\ started' = started + 1
  /\ UNCHANGED <<db, s3, fs, nameCtr, video, fileName, prefix, log>>
  /\ UNCHANGED <<thumbs, pure>>

Receive(r) == ReceiveFrom(r, Requests)

\* The requests that pass every check of lines 13-47.
PassingRequests ==
  { rq \in Requests :
      /\ IdError(rq) = NoError
      /\ AuthError(rq) = NoError
      /\ FormError(rq) = NoError
      /\ RecordError(rq, getVideo(db, rq.videoId)) = NoError }

ReceivePassing(r) == ReceiveFrom(r, PassingRequests)

\* Lines 24-50: the payload checks, the record lookup, owner and type checks.
Validate(r) ==
  /\ pc[r] = "form"
  /\ IF FormError(req[r]) # NoError
       THEN End(r, FormError(req[r])) /\ UNCHANGED <<video, log>>
       ELSE /\ video' = [video EXCEPT ![r] = getVideo(db, req[r].videoId)]
            /\ IF RecordError(req[r], video'[r]) # NoError
                 THEN /\ End(r, RecordError(req[r], video'[r]))
                      /\ log' = [log EXCEPT ![r] = Append(@, "getVideo")]
                 ELSE Step(r, "buffered", "getVideo") /\ UNCHANGED resp
  /\ UNCHANGED <<db, s3, fs, nameCtr, started, req, fileName, prefix>>
  /\ UNCHANGED <<thumbs, pure>>

\* Lines 51-55: the random file name, and the payload written under it.
WriteStaged(r) ==
  /\ pc[r] = "buffered"
  /\ nameCtr' = nameCtr + 1
  /\ fileName' = [fileName EXCEPT ![r] = [rand |-> nameCtr + 1, ext |-> Extension(req[r].payload.type)]]
  /\ \/ /\ fs' = WriteFile(fs, TargetPath(fileName'[r]), req[r].payload.bytes)
        /\ Step(r, "written", "write")
        /\ UNCHANGED resp
     \/ /\ End(r, Throw("Error", "write failed"))
        /\ UNCHANGED <<fs, log>>
  /\ UNCHANGED <<db, s3, started, req, video, prefix>>
  /\ UNCHANGED <<thumbs, pure>>

\* Mutant: the exit of the probe is awaited on a promise that never settles.
MutGetVideoAspectRatioHangs(r) ==
  /\ pc[r] = "written"
  /\ prefix[r] # ""
  /\ Step(r, "probed", "probe")
  /\ UNCHANGED <<db, s3, fs, nameCtr, started, req, resp, video, fileName, prefix>>
  /\ UNCHANGED <<thumbs, pure>>

\* Line 56, lines 87-111: the probe of the staged file and its classification.
getVideoAspectRatio(r) ==
  /\ pc[r] = "written"
  /\ \/ /\ End(r, Throw("Error", "Failed to read dimensions"))
        /\ log' = [log EXCEPT ![r] = Append(@, "probe")]
        /\ UNCHANGED prefix
     \/ /\ End(r, Throw("TypeError", "streams[0] is undefined"))
        /\ log' = [log EXCEPT ![r] = Append(@, "probe")]
        /\ UNCHANGED prefix
     \/ \E d \in Dims :
          /\ prefix' = [prefix EXCEPT ![r] = AspectClass(d[1], d[2])]
          /\ Step(r, "probed", "probe")
          /\ UNCHANGED resp
  /\ UNCHANGED <<db, s3, fs, nameCtr, started, req, video, fileName>>
  /\ UNCHANGED <<thumbs, pure>>

\* Line 57, lines 113-127: the remux of the staged file into its .processed file.
processVideoForFastStart(r) ==
  /\ pc[r] = "probed"
  /\ LET filePath == TargetPath(fileName[r])
         outputFilePath == OutputFilePath(filePath)
     IN \/ /\ fs' = WriteFile(fs, outputFilePath, FastStart(ReadFile(fs, filePath)))
           /\ Step(r, "processed", "remux")
           /\ UNCHANGED resp
        \/ /\ End(r, Throw("Error", "Failed to process video for fast start"))
           /\ log' = [log EXCEPT ![r] = Append(@, "remux")]
           /\ \/ UNCHANGED fs
              \/ fs' = WriteFile(fs, outputFilePath, Partial(ReadFile(fs, filePath)))
  /\ UNCHANGED <<db, s3, nameCtr, started, req, video, fileName, prefix>>
  /\ UNCHANGED <<thumbs, pure>>

\* Line 58: the staged file is deleted.
DeleteStaged(r) ==
  /\ pc[r] = "processed"
  /\ \/ /\ fs' = DeleteFile(fs, TargetPath(fileName[r]))
        /\ Step(r, "unstaged", "deleteStaged")
        /\ UNCHANGED resp
     \/ /\ End(r, Throw("Error", "delete failed"))
        /\ UNCHANGED <<fs, log>>
  /\ UNCHANGED <<db, s3, nameCtr, started, req, video, fileName, prefix>>
  /\ UNCHANGED <<thumbs, pure>>

\* Mutant: the remux is not awaited, the put may start once the probe is done.
MutPutObjectNoAwait(r) ==
  /\ pc[r] \in {"probed", "unstaged"}
  /\ LET key == StorageKey(prefix[r], fileName[r])
         localFile == UploadSource(TargetPath(fileName[r]))
     IN \/ /\ s3' = WriteFile(s3, key, ReadFile(fs, localFile))
           /\ Step(r, "uploaded", "put")
           /\ UNCHANGED resp
        \/ /\ End(r, Throw("Error", "put failed"))
           /\ UNCHANGED <<s3, log>>
  /\ UNCHANGED <<db, fs, nameCtr, started, req, video, fileName, prefix>>
  /\ UNCHANGED <<thumbs, pure>>

\* Lines 59-62: the processed file is put into object storage under the key.
PutObject(r) ==
  /\ pc[r] = "unstaged"
  /\ LET key == StorageKey(prefix[r], fileName[r])
         localFile == UploadSource(TargetPath(fileName[r]))
     IN \/ /\ s3' = WriteFile(s3, key, ReadFile(fs, localFile))
           /\ Step(r, "uploaded", "put")
           /\ UNCHANGED resp
        \/ /\ End(r, Throw("Error", "put failed"))
           /\ UNCHANGED <<s3, log>>
  /\ UNCHANGED <<db, fs, nameCtr, started, req, video, fileName, prefix>>
  /\ UNCHANGED <<thumbs, pure>>

\* Line 63: the processed file is deleted.
DeleteProcessed(r) ==
  /\ pc[r] = "uploaded"
  /\ \/ /\ fs' = DeleteFile(fs, UploadSource(TargetPath(fileName[r])))
        /\ Step(r, "cleaned", "deleteProcessed")
        /\ UNCHANGED resp
     \/ /\ End(r, Throw("Error", "delete failed"))
        /\ UNCHANGED <<fs, log>>
  /\ UNCHANGED <<db, s3, nameCtr, started, req, video, fileName, prefix>>
  /\ UNCHANGED <<thumbs, pure>>

\* Lines 65-71: the key is set on the record, the record is persisted, the
\* same object is then signed in place and returned.
Finish(r) ==
  /\ pc[r] = "cleaned"
  /\ LET keyed == [video[r] EXCEPT !.videoURL = StorageKey(prefix[r], fileName[r])]
     IN \/ /\ db' = updateVideo(db, VideoAtUpdate(keyed))
           /\ video' = [video EXCEPT ![r] = dbVideoToSignedVideo(keyed)]
           /\ End(r, respondWithJSON(200, video'[r]))
           /\ log' = [log EXCEPT ![r] = Append(Append(@, "update"), "sign")]
        \/ /\ video' = [video EXCEPT ![r] = keyed]
           /\ End(r, Throw("Error", "update failed"))
           /\ UNCHANGED <<db, log>>
  /\ UNCHANGED <<s3, fs, nameCtr, started, req, fileName, prefix>>
  /\ UNCHANGED <<thumbs, pure>>

\* The slot is free again for the next request.
Recycle(r) ==
  /\ pc[r] = "done"
  /\ started < MaxRequests
  /\ pc' = [pc EXCEPT ![r] = "idle"]
  /\ req' = [req EXCEPT ![r] = NoRequest]
  /\ resp' = [resp EXCEPT ![r] = NoError]
  /\ video' = [video EXCEPT ![r] = NoVideo]
  /\ fileName' = [fileName EXCEPT ![r] = NoFileName]
  /\ prefix' = [prefix EXCEPT ![r] = ""]
  /\ log' = [log EXCEPT ![r] = <<>>]
  /\ UNCHANGED shared
  /\ UNCHANGED <<thumbs, pure>>

Next ==
  \E r \in Slots :
    \/ Receive(r)
    \/ Validate(r)
    \/ WriteStaged(r)
    \/ getVideoAspectRatio(r)
    \/ processVideoForFastStart(r)
    \/ DeleteStaged(r)
    \/ PutObject(r)
    \/ DeleteProcessed(r)
    \/ Finish(r)
    \/ Recycle(r)

Spec == Init /\ [][Next]_vars

\* The steps of a handler whose external call returns: each is taken once it
\* stays enabled.  Requests need not arrive and slots need not be reused.
HandlerStep(r) ==
  \/ Validate(r)
  \/ WriteStaged(r)
  \/ getVideoAspectRatio(r)
  \/ processVideoForFastStart(r)
  \/ DeleteStaged(r)
  \/ PutObject(r)
  \/ DeleteProcessed(r)
  \/ Finish(r)

SpecLive == Init /\ [][Next]_vars /\ \A r \in Slots : WF_vars(HandlerStep(r))

\* ------------------------------------------- dbVideoToSignedVideo on its own
\* A stored record is loaded into an object (arg) and signed; the function
\* assigns the URL to the object it is given and returns that same object,
\* so a second call on the object works on what the first call left in it.
Classes == {"landscape", "portrait", "other"}
StoredURLs ==
  {NoURL} \cup {KeyURL(c, [rand |-> k, ext |-> "mp4"]) : c \in Classes, k \in 1..MaxNames}
StoredRecords ==
  { [id |-> "v1", userID |-> u, videoURL |-> l, thumbnailURL |-> NoURL] :
      u \in Users, l \in StoredURLs }

InitSign ==
  /\ \E rec \in StoredRecords : db = [v \in {"v1"} |-> rec]
  /\ arg = getVideo(db, "v1")
  /\ out = <<>>
  /\ s3 = {} /\ fs = {} /\ nameCtr = 0 /\ started = 0
  /\ pc = [r \in Slots |-> "idle"]
  /\ req = [r \in Slots |-> NoRequest]
  /\ resp = [r \in Slots |-> NoError]
  /\ video = [r \in Slots |-> NoVideo]
  /\ fileName = [r \in Slots |-> NoFileName]
  /\ prefix = [r \in Slots |-> ""]
  /\ log = [r \in Slots |-> <<>>]
  /\ tpc = "idle" /\ treq = NoThumbRequest /\ tresp = NoError
  /\ tvideo = NoVideo /\ tfile = NoFileName /\ tlog = <<>>

\* dbVideoToSignedVideo(cfg, video) on the object signed before.
SignSame ==
  /\ Len(out) < MaxSignCalls
  /\ arg' = dbVideoToSignedVideo(arg)
  /\ out' = Append(out, arg'.videoURL)
  /\ UNCHANGED <<shared, uploads, thumbs>>

\* dbVideoToSignedVideo(cfg, getVideo(cfg.db, id)) on a newly loaded object.
SignLoaded ==
  /\ Len(out) < MaxSignCalls
  /\ arg' = dbVideoToSignedVideo(getVideo(db, "v1"))
  /\ out' = Append(out, arg'.videoURL)
  /\ UNCHANGED <<shared, uploads, thumbs>>

NextSign == SignSame \/ SignLoaded

SpecSign == InitSign /\ [][NextSign]_vars

\* -------------------------------------- the classification of lines 100-110
Resolutions ==
  { <<1920, 1080>>, <<1280, 720>>, <<1366, 768>>, <<854, 480>>, <<640, 480>>,
    <<1080, 1920>>, <<720, 1280>>, <<1609, 900>>, <<1591, 900>>, <<1608, 900>>,
    <<229, 400>>, <<221, 400>>, <<228, 400>>, <<3840, 2160>>, <<2160, 3840>> }
AspectInputs == ((1..MaxDim) \X (1..MaxDim)) \cup Resolutions

InitAspect ==
  /\ arg \in AspectInputs
  /\ out = <<>>
  /\ db = [v \in {"v1"} |-> [id |-> "v1", userID |-> "u1", videoURL |-> NoURL, thumbnailURL |-> NoURL]]
  /\ s3 = {} /\ fs = {} /\ nameCtr = 0 /\ started = 0
  /\ pc = [r \in Slots |-> "idle"]
  /\ req = [r \in Slots |-> NoRequest]
  /\ resp = [r \in Slots |-> NoError]
  /\ video = [r \in Slots |-> NoVideo]
  /\ fileName = [r \in Slots |-> NoFileName]
  /\ prefix = [r \in Slots |-> ""]
  /\ log = [r \in Slots |-> <<>>]
  /\ tpc = "idle" /\ treq = NoThumbRequest /\ tresp = NoError
  /\ tvideo = NoVideo /\ tfile = NoFileName /\ tlog = <<>>

Classify ==
  /\ out = <<>>
  /\ out' = <<AspectClass(arg[1], arg[2])>>
  /\ UNCHANGED <<arg, shared, uploads, thumbs>>

NextAspect == Classify

SpecAspect == InitAspect /\ [][NextAspect]_vars

\* ------------------------------------------------- handlerUploadThumbnail
\* Two versions of the handler: "dataURL" stores the payload in the record as
\* a data URL and looks the record up after the payload is read; "assetFile"
\* looks the record up first, then writes the payload to the assets directory
\* and stores the URL of that file.
Base64(bytes) == [base64 |-> bytes.data]
DataURL(mediaType, bytes) == [kind |-> "data", mediaType |-> mediaType, data |-> Base64(bytes)]
AssetURL(name) == [kind |-> "asset", name |-> name]

ThumbExtension(type) ==
  IF type = "image/png" THEN "png" ELSE IF type = "image/jpeg" THEN "jpeg" ELSE "gif"

ThumbFormError(rq) ==
  IF ~rq.payload.isFile THEN Throw("BadRequestError", "Thumbnail is not a file")
  ELSE IF rq.payload.size > MAX_THUMB_SIZE THEN Throw("BadRequestError", "Thumbnail is larger than 10MB")
  ELSE NoError

\* Mutant: the owner of the record is not checked.
MutThumbRecordErrorNoOwner(rq, v) ==
  IF v = NoVideo THEN Throw("NotFoundError", "Video not found") ELSE NoError

ThumbRecordError(rq, v) ==
  IF v = NoVideo THEN Throw("NotFoundError", "Video not found")
  ELSE IF v.userID # validateJWT(rq.token) THEN Throw("UserForbiddenError", "Wrong user")
  ELSE NoError

ThumbTypeError(rq) ==
  IF rq.payload.type # "image/png" /\ rq.payload.type # "image/jpeg"
    THEN Throw("BadRequestError", "Unsupported thumbnail format")
    ELSE NoError

ThumbEnd(outcome) == tpc' = "done" /\ tresp' = outcome

\* Both versions, the path parameter, the token, the form:
\* thumbnails.ts lines 39-49, part_000 lines 168-178.
ThumbReceive ==
  /\ tpc = "idle"
  /\ started < MaxRequests
  /\ started' = started + 1
  /\ \E rq \in ThumbRequests :
       /\ treq' = rq
       /\ IF IdError(rq) # NoError THEN ThumbEnd(IdError(rq))
          ELSE IF AuthError(rq) # NoError THEN ThumbEnd(AuthError(rq))
          ELSE tpc' = "form" /\ UNCHANGED tresp
  /\ UNCHANGED <<db, s3, fs, nameCtr, tvideo, tfile, tlog, uploads, pure>>

\* Version dataURL, thumbnails.ts lines 51-64: the payload checks.
ThumbCheck ==
  /\ tpc = "form" /\ treq.version = "dataURL"
  /\ IF ThumbFormError(treq) # NoError
       THEN ThumbEnd(ThumbFormError(treq))
       ELSE tpc' = "buffered" /\ UNCHANGED tresp
  /\ UNCHANGED <<shared, tvideo, treq, tfile, tlog, uploads, pure>>

\* Version dataURL, thumbnails.ts lines 65-81: the record is looked up,
\* given the data URL and persisted, with no await in between.
ThumbStore ==
  /\ tpc = "buffered" /\ treq.version = "dataURL"
  /\ LET v == getVideo(db, treq.videoId)
         set == [v EXCEPT !.thumbnailURL = DataURL(treq.payload.type, treq.payload.bytes)]
     IN IF ThumbRecordError(treq, v) # NoError
          THEN /\ ThumbEnd(ThumbRecordError(treq, v))
               /\ tvideo' = v
               /\ tlog' = Append(tlog, "getVideo")
               /\ UNCHANGED db
          ELSE /\ tvideo' = set
               /\ \/ /\ db' = updateVideo(db, set)
                     /\ ThumbEnd(respondWithJSON(200, set))
                     /\ tlog' = Append(Append(tlog, "getVideo"), "update")
                  \/ /\ ThumbEnd(Throw("Error", "update failed"))
                     /\ tlog' = Append(tlog, "getVideo")
                     /\ UNCHANGED db
  /\ UNCHANGED <<s3, fs, nameCtr, started, treq, tfile, uploads, pure>>

\* Version assetFile, part_000 lines 180-206: the payload checks, the record
\* lookup, the owner and type checks.
ThumbValidate ==
  /\ tpc = "form" /\ treq.version = "assetFile"
  /\ IF ThumbFormError(treq) # NoError
       THEN ThumbEnd(ThumbFormError(treq)) /\ UNCHANGED <<tvideo, tlog>>
       ELSE /\ tvideo' = getVideo(db, treq.videoId)
            /\ tlog' = Append(tlog, "getVideo")
            /\ IF ThumbRecordError(treq, tvideo') # NoError
                 THEN ThumbEnd(ThumbRecordError(treq, tvideo'))
                 ELSE IF ThumbTypeError(treq) # NoError
                   THEN ThumbEnd(ThumbTypeError(treq))
                   ELSE tpc' = "buffered" /\ UNCHANGED tresp
  /\ UNCHANGED <<shared, treq, tfile, uploads, pure>>

\* Version assetFile, part_000 lines 207-211: the payload is written to the
\* assets directory under a random name.
ThumbWrite ==
  /\ tpc = "buffered" /\ treq.version = "assetFile"
  /\ nameCtr' = nameCtr + 1
  /\ tfile' = [rand |-> nameCtr + 1, ext |-> ThumbExtension(treq.payload.type)]
  /\ \/ /\ fs' = WriteFile(fs, TargetPath(tfile'), treq.payload.bytes)
        /\ tpc' = "written"
        /\ tlog' = Append(tlog, "write")
        /\ UNCHANGED tresp
     \/ /\ ThumbEnd(Throw("Error", "write failed"))
        /\ UNCHANGED <<fs, tlog>>
  /\ UNCHANGED <<db, s3, started, treq, tvideo, uploads, pure>>

\* Version assetFile, part_000 lines 212-216: the record read at line 192 is
\* given the URL of the file and persisted.
ThumbFinish ==
  /\ tpc = "written" /\ treq.version = "assetFile"
  /\ tvideo' = [tvideo EXCEPT !.thumbnailURL = AssetURL(tfile)]
  /\ \/ /\ db' = updateVideo(db, tvideo')
        /\ ThumbEnd(respondWithJSON(200, tvideo'))
        /\ tlog' = Append(tlog, "update")
     \/ /\ ThumbEnd(Throw("Error", "update failed"))
        /\ UNCHANGED <<db, tlog>>
  /\ UNCHANGED <<s3, fs, nameCtr, started, treq, tfile, uploads, pure>>

ThumbRecycle ==
  /\ tpc = "done"
  /\ started < MaxRequests
  /\ tpc' = "idle"
  /\ treq' = NoThumbRequest
  /\ tresp' = NoError
  /\ tvideo' = NoVideo
  /\ tfile' = NoFileName
  /\ tlog' = <<>>
  /\ UNCHANGED <<shared, uploads, pure>>

\* Thumbnail uploads of every kind next to the video uploads that get past
\* their checks: a video upload rejected by a check touches neither the
\* record nor any file.
NextThumb ==
  \/ \E r \in Slots :
       \/ ReceivePassing(r)
       \/ Validate(r)
       \/ WriteStaged(r)
       \/ getVideoAspectRatio(r)
       \/ processVideoForFastStart(r)
       \/ DeleteStaged(r)
       \/ PutObject(r)
       \/ DeleteProcessed(r)
       \/ Finish(r)
       \/ Recycle(r)
  \/ ThumbReceive
  \/ ThumbCheck
  \/ ThumbStore
  \/ ThumbValidate
  \/ ThumbWrite
  \/ ThumbFinish
  \/ ThumbRecycle

SpecThumb == Init /\ [][NextThumb]_vars

\* ================================================================ properties
Done(r) == pc[r] = "done"
Succeeded(r) == Done(r) /\ resp[r].status = 200
Authenticated(rq) == rq.token \in Users

\* The six preconditions of an upload, as violations of a request.
Viol1(rq) == rq.videoId = MissingId
Viol2(rq) == ~rq.payload.isFile
Viol3(rq) == rq.payload.isFile /\ rq.payload.size > 1073741824
Viol4(rq) == rq.videoId \notin DOMAIN db
Viol5(rq) == rq.videoId \in DOMAIN db /\ Authenticated(rq) /\ db[rq.videoId].userID # rq.token
Viol6(rq) == rq.payload.isFile /\ rq.payload.type # "video/mp4"
AnyViolation(rq) == Viol1(rq) \/ Viol2(rq) \/ Viol3(rq) \/ Viol4(rq) \/ Viol5(rq) \/ Viol6(rq)

Count(seq, what) == Cardinality({i \in DOMAIN seq : seq[i] = what})
FilesOf(files, name) == {f \in files : f.path.name = name}

\* C1: a request that violates any of the six preconditions ends with an error
\* and has written no local file, put no object and updated no record.
C1_PreconditionFailureNoWrite ==
  \A r \in Slots :
    (pc[r] # "idle" /\ AnyViolation(req[r])) =>
      /\ pc[r] \in {"form", "done"}
      /\ Done(r) => resp[r].error # ""
      /\ Count(log[r], "write") = 0
      /\ Count(log[r], "put") = 0
      /\ Count(log[r], "update") = 0
      /\ fileName[r] = NoFileName

C1_Witness ==
  \E r \in Slots :
    /\ Done(r) /\ Authenticated(req[r]) /\ Viol6(req[r])
    /\ resp[r].msg = "Unsupported video format"
    /\ \E q \in Slots : q # r /\ Succeeded(q)

\* C2 as stated: a request whose authenticated actor is not the owner of the
\* referenced record is rejected with Forbidden whatever its payload is.
C2_ForbiddenRegardlessOfPayload ==
  \A r \in Slots :
    (Done(r) /\ Viol5(req[r])) => resp[r].error = "UserForbiddenError"

\* C2 amended: a request whose authenticated actor is not the owner of the
\* referenced record, and whose payload is a file of at most 1 GiB, is rejected
\* with Forbidden whatever its declared MIME type is.
C2_ForbiddenRegardlessOfType ==
  \A r \in Slots :
    (Done(r) /\ Viol5(req[r]) /\ ~Viol2(req[r]) /\ ~Viol3(req[r])) =>
      /\ resp[r].error = "UserForbiddenError"
      /\ resp[r].msg = "Wrong user"

C2_Witness ==
  \E r \in Slots :
    /\ Done(r) /\ Viol5(req[r]) /\ Viol6(req[r])
    /\ resp[r].error = "UserForbiddenError"

\* The failure the stated order of the preconditions asks for.
ExpectedFailure(rq) ==
  IF Viol1(rq) THEN <<"BadRequestError", "Invalid video ID">>
  ELSE IF Viol2(rq) THEN <<"BadRequestError", "Video is not a file">>
  ELSE IF Viol3(rq) THEN <<"BadRequestError", "Video is larger than 1GB">>
  ELSE IF Viol4(rq) THEN <<"NotFoundError", "Video not found">>
  ELSE IF Viol5(rq) THEN <<"UserForbiddenError", "Wrong user">>
  ELSE <<"BadRequestError", "Unsupported video format">>

ViolationCount(rq) ==
  Cardinality({i \in 1..6 :
    \/ i = 1 /\ Viol1(rq)
    \/ i = 2 /\ Viol2(rq)
    \/ i = 3 /\ Viol3(rq)
    \/ i = 4 /\ Viol4(rq)
    \/ i = 5 /\ Viol5(rq)
    \/ i = 6 /\ Viol6(rq)})

\* C3: a finished request of an authenticated actor that violates one or more
\* of the six preconditions reports the failure of the lowest-numbered one
\* violated: BadRequestError for 1, 2, 3, 6, NotFoundError for 4,
\* UserForbiddenError for 5.
C3_LowestViolationReported ==
  \A r \in Slots :
    (Done(r) /\ AnyViolation(req[r]) /\ (Authenticated(req[r]) \/ Viol1(req[r]))) =>
      <<resp[r].error, resp[r].msg>> = ExpectedFailure(req[r])

C3_Witness ==
  \E r \in Slots :
    /\ Done(r) /\ Authenticated(req[r])
    /\ Viol3(req[r]) /\ Viol4(req[r]) /\ Viol6(req[r])
    /\ ViolationCount(req[r]) = 3
    /\ resp[r].msg = "Video is larger than 1GB"

\* C4: a request that passes preconditions 1-5 and declares a type other than
\* video/mp4 is rejected with BadRequestError; it writes no file, puts no
\* object and updates no record.
C4_WrongTypeRejected ==
  \A r \in Slots :
    (Done(r) /\ Authenticated(req[r]) /\ Viol6(req[r]) /\ ViolationCount(req[r]) = 1) =>
      /\ resp[r].error = "BadRequestError"
      /\ resp[r].msg = "Unsupported video format"
      /\ Count(log[r], "write") = 0
      /\ Count(log[r], "put") = 0
      /\ Count(log[r], "update") = 0
      /\ FilesOf(fs, fileName[r]) = {}
      /\ FilesOf(s3, fileName[r]) = {}

C4_Witness ==
  \E r \in Slots :
    /\ Done(r) /\ Authenticated(req[r]) /\ req[r].payload.type = "video/avi"
    /\ ViolationCount(req[r]) = 1
    /\ resp[r].msg = "Unsupported video format"
    /\ db["v1"].videoURL = NoURL /\ s3 = {} /\ fs = {}

\* C5: in every reachable state a record whose storage-location is set holds
\* a key of an object of durable storage, and that object has the bytes the
\* Stream Optimizer wrote, never the bytes as uploaded.
C5_LocationDenotesOptimizedObject ==
  \A v \in DOMAIN db :
    db[v].videoURL # NoURL =>
      /\ FileAt(s3, db[v].videoURL) # {}
      /\ \A o \in FileAt(s3, db[v].videoURL) :
           o.bytes.layout = "faststart" /\ o.bytes.data \in Contents

C5_Witness ==
  /\ db["v1"].videoURL # NoURL
  /\ Cardinality(s3) = 2
  /\ \E r \in Slots : Done(r) /\ resp[r].msg = "update failed"

\* C6 as stated: once a request has ended, neither its staged file nor the
\* processed file derived from it is in local storage.
C6_NoStagedFileOutlivesRequest ==
  \A r \in Slots : Done(r) => FilesOf(fs, fileName[r]) = {}

\* C7 as stated: when the remux process exits non-zero the request fails, the
\* staged file is deleted, and neither the record nor durable storage changed.
C7_RemuxFailureCleansUp ==
  \A r \in Slots :
    (Done(r) /\ resp[r].msg = "Failed to process video for fast start") =>
      /\ resp[r].error = "Error"
      /\ FileAt(fs, TargetPath(fileName[r])) = {}
      /\ Count(log[r], "put") = 0
      /\ Count(log[r], "update") = 0

\* C8: the step that ends a request with success leaves the persisted record
\* with storage-location {geometry-class}/{file name} of that request, and
\* durable storage with the optimized bytes of its payload at that key.
C8_SuccessPersistsKeyOfOptimizedObject ==
  [][\A r \in Slots :
       (pc[r] # "done" /\ pc'[r] = "done" /\ resp'[r].status = 200) =>
         /\ prefix[r] \in {"landscape", "portrait", "other"}
         /\ db'[req[r].videoId].videoURL =
              [kind |-> "key", prefix |-> prefix[r], name |-> fileName[r]]
         /\ \E o \in s3' :
              /\ o.path = db'[req[r].videoId].videoURL
              /\ o.bytes = [data |-> req[r].payload.bytes.data, layout |-> "faststart"]]_vars

C8_Witness ==
  \E r \in Slots :
    /\ Succeeded(r)
    /\ prefix[r] = "portrait"
    /\ db["v1"].videoURL = [kind |-> "key", prefix |-> "portrait", name |-> fileName[r]]

Valid(rq) == Authenticated(rq) /\ ~AnyViolation(rq)

\* C9: a finished request that met every precondition either got 200 or
\* failed in an external step; on 200 the storage field of the body is the
\* signed form of the request's key, the request put exactly one object, and
\* no local file of the request remains.
C9_SuccessResponse ==
  \A r \in Slots :
    /\ (Done(r) /\ Valid(req[r])) =>
         \/ resp[r].status = 200
         \/ resp[r].error \in {"Error", "TypeError"}
    /\ Succeeded(r) =>
         /\ Valid(req[r])
         /\ resp[r].body.videoURL.kind = "signed"
         /\ resp[r].body.videoURL.key = [kind |-> "key", prefix |-> prefix[r], name |-> fileName[r]]
         /\ resp[r].body.videoURL.expiresIn = 3600
         /\ resp[r].body.id = req[r].videoId
         /\ Count(log[r], "put") = 1
         /\ Cardinality(FilesOf(s3, fileName[r])) = 1
         /\ FilesOf(fs, fileName[r]) = {}

C9_Witness ==
  \E r \in Slots :
    /\ Succeeded(r)
    /\ prefix[r] = "landscape"
    /\ resp[r].body.videoURL.kind = "signed"
    /\ Cardinality(s3) = 1
    /\ fs = {}

\* C10: in every reachable state the storage-location of a record of the
\* metadata store is unset or a raw key, never a signed URL.
C10_SignedFormNeverPersisted ==
  \A v \in DOMAIN db :
    /\ db[v].videoURL.kind \in {"none", "key"}
    /\ db[v].videoURL.kind = "key" =>
         \E k \in 1..nameCtr : db[v].videoURL.name.rand = k

C10_Witness ==
  /\ db["v1"].videoURL.kind = "key"
  /\ started = MaxRequests
  /\ \A r \in Slots : Succeeded(r) /\ resp[r].body.videoURL.kind = "signed"

Failed(r) == Done(r) /\ resp[r].error # ""

\* C11 as stated: a request that fails, at whatever step, leaves the record
\* not updated and durable storage without any object of the request.
C11_FailureLeavesDurableStateUnchanged ==
  \A r \in Slots :
    Failed(r) =>
      /\ Count(log[r], "update") = 0
      /\ FilesOf(s3, fileName[r]) = {}

\* C12 as stated: every request reads the record exactly once; it writes the
\* record once when it succeeds and never when it fails.
C12_ReadsExactlyOnce ==
  \A r \in Slots :
    Done(r) =>
      /\ Count(log[r], "getVideo") = 1
      /\ Succeeded(r) => Count(log[r], "update") = 1
      /\ Failed(r) => Count(log[r], "update") = 0

\* C12 amended: a request reads the record at most once: once when it has an
\* identifier, a valid token and a file payload of at most 1 GiB, and never
\* when it is rejected before the lookup; it writes the record once when it
\* succeeds and never when it fails.
C12_ReadsAtMostOnce ==
  \A r \in Slots :
    Done(r) =>
      /\ Count(log[r], "getVideo") =
           IF Viol1(req[r]) \/ ~Authenticated(req[r]) \/ Viol2(req[r]) \/ Viol3(req[r])
             THEN 0 ELSE 1
      /\ Succeeded(r) => Count(log[r], "update") = 1
      /\ Failed(r) => Count(log[r], "update") = 0
      /\ Succeeded(r) \/ Failed(r)

C12_Witness ==
  \E r, q \in Slots :
    /\ Succeeded(r) /\ Count(log[r], "getVideo") = 1 /\ Count(log[r], "update") = 1
    /\ Failed(q) /\ Viol3(req[q]) /\ Count(log[q], "getVideo") = 0

StepOrder ==
  <<"getVideo", "write", "probe", "remux", "deleteStaged", "put",
    "deleteProcessed", "update", "sign">>

IsPrefix(a, b) == Len(a) <= Len(b) /\ \A i \in 1..Len(a) : a[i] = b[i]

\* C15: the steps a request has made are, in this order and each at most
\* once: record lookup, local write, probe, remux, delete of the staged file,
\* durable put, delete of the processed file, record update, signing; the
\* object a request has put holds the output of a remux that exited with 0,
\* and a record update is preceded by the put.
C15_StepsInFixedOrder ==
  \A r \in Slots :
    /\ IsPrefix(log[r], StepOrder)
    /\ Succeeded(r) => log[r] = StepOrder
    /\ \A o \in FilesOf(s3, fileName[r]) :
         fileName[r] # NoFileName => o.bytes.layout = "faststart"
    /\ Count(log[r], "update") = 1 => Cardinality(FilesOf(s3, fileName[r])) = 1

C15_Witness ==
  \E r, q \in Slots :
    /\ Succeeded(r) /\ log[r] = StepOrder
    /\ pc[q] = "unstaged" /\ Len(log[q]) = 5

\* C13 as stated: every URL the signing step returns for a stored key, the
\* second call on the same record included, resolves to the object at that
\* key; a record without storage-location comes back unchanged.
C13_EverySignedURLResolvesToStoredKey ==
  \A i \in 1..Len(out) :
    IF db["v1"].videoURL = NoURL
      THEN out[i] = NoURL
      ELSE out[i].kind = "signed" /\ out[i].key = db["v1"].videoURL

\* The two classes as the exact comparisons of the quotient width / height.
NearLandscape(w, h) == 1591 * h < 900 * w /\ 900 * w < 1609 * h
NearPortrait(w, h) == 884 * h < 1600 * w /\ 1600 * w < 916 * h

\* C14: for positive width and height the class is landscape exactly when
\* |width/height - 16/9| < 0.01, portrait exactly when
\* |width/height - 9/16| < 0.01, other in every remaining case; the two
\* conditions never hold together.
C14_ClassificationExact ==
  out # <<>> =>
    /\ out[1] \in {"landscape", "portrait", "other"}
    /\ out[1] = "landscape" <=> NearLandscape(arg[1], arg[2])
    /\ out[1] = "portrait" <=> NearPortrait(arg[1], arg[2])
    /\ out[1] = "other" <=> (~NearLandscape(arg[1], arg[2]) /\ ~NearPortrait(arg[1], arg[2]))
    /\ ~(NearLandscape(arg[1], arg[2]) /\ NearPortrait(arg[1], arg[2]))

C14_Witness ==
  /\ arg = <<1609, 900>>
  /\ out = <<"other">>

\* C16: with every external step returning, a request under way ends, with a
\* 200 response or with an error and never both, and its outcome stays; as
\* long as the probe or the remux has not exited the request makes no step
\* and touches none of its files or objects.
C16_TerminatesOrBlocks ==
  /\ \A r \in Slots : (pc[r] \notin {"idle", "done"}) ~> (pc[r] = "done")
  /\ [](\A r \in Slots : Done(r) => ((resp[r].status = 200) # (resp[r].error # "")))
  /\ [][\A r \in Slots :
          /\ (pc[r] = "done" /\ pc'[r] = "done") => resp'[r] = resp[r]
          /\ (pc[r] \in {"written", "probed"} /\ pc'[r] = pc[r]) =>
               /\ log'[r] = log[r]
               /\ FilesOf(fs', fileName[r]) = FilesOf(fs, fileName[r])
               /\ FilesOf(s3', fileName[r]) = FilesOf(s3, fileName[r])
          /\ (pc[r] = "written" /\ pc'[r] # pc[r]) => log'[r] = Append(log[r], "probe")
          /\ (pc[r] = "probed" /\ pc'[r] # pc[r]) => log'[r] = Append(log[r], "remux")]_vars

C16_Witness ==
  \E r, q \in Slots :
    /\ Succeeded(r)
    /\ Failed(q) /\ resp[q].msg = "Failed to read dimensions"

ThumbSucceeded == tpc = "done" /\ tresp.status = 200

\* C17 as stated: once a video upload and a thumbnail upload on the same
\* record have both succeeded, the record holds the thumbnail URL the
\* thumbnail upload set and a storage-location a video upload set.
C17_NoUpdateLost ==
  \A r \in Slots :
    (Succeeded(r) /\ ThumbSucceeded /\ req[r].videoId = treq.videoId) =>
      /\ db[treq.videoId].thumbnailURL = tresp.body.thumbnailURL
      /\ db[treq.videoId].videoURL.kind = "key"

\* The checks of a thumbnail upload, as violations of a request.
ThumbViolation(rq) ==
  \/ rq.videoId = MissingId
  \/ ~rq.payload.isFile
  \/ rq.payload.isFile /\ rq.payload.size > 10485760
  \/ rq.videoId \notin DOMAIN db
  \/ rq.videoId \in DOMAIN db /\ rq.token \in Users /\ db[rq.videoId].userID # rq.token

\* C18: the step that ends a thumbnail upload violating one of the checks
\* (video ID missing, payload not a file, payload larger than 10 MB, record
\* absent, actor not the owner) ends it with an error and leaves every record
\* as it was, and the request has made no record update before.
C18_FailedThumbnailLeavesRecord ==
  [][(tpc # "done" /\ tpc' = "done" /\ ThumbViolation(treq')) =>
       /\ tresp'.error # ""
       /\ db' = db
       /\ Count(tlog', "update") = 0]_vars

C18_Witness ==
  /\ tpc = "done"
  /\ treq.videoId = "v1" /\ treq.token = "u2" /\ treq.payload.isFile
  /\ treq.payload.size = 10485760
  /\ tresp.error = "UserForbiddenError"
  /\ db["v1"].videoURL.kind = "key"
  /\ db["v1"].thumbnailURL = NoURL
====
